---- MODULE Spec2Model ----
(***************************************************************************)
(* gravity.yaml importer: the YAML document is loaded, the store at        *)
(* <dir>/gravity.db is rotated and recreated, and the groups, adlists and  *)
(* adlist_by_group rows are written in one transaction.                    *)
(*                                                                         *)
(* Two programs are modelled, selected by `impl`:                          *)
(*   "Application"  src/gravityyaml.py            (main -> Application.run)*)
(*   "GravityYAML"  src/gravityyaml/gravityyaml.py (cli -> GravityYAML.run)*)
(* Rows keep the identifying columns only (id, name / address / the pair); *)
(* the enabled and description columns are copied through by both programs *)
(* and read by nothing.                                                    *)
(***************************************************************************)
EXTENDS Integers, Sequences, FiniteSets, TLC

\* ---------------------------------------------------------------- bounds
MaxGroups == 2
MaxAdlists == 2
MaxRefs == 2

\* ------------------------------------------------------------- constants
DEFAULT_ID == 0
EXIT_DEFAULT == 1
EXIT_DATABASE_ERROR == 2
EXIT_CONFIG_FILE_ERROR == 3
EXIT_FILE_ERROR == 4
EXIT_SUCCESS == 0

Impls == {"Application", "GravityYAML"}
GroupNames == {"Family", "Default"}
RefNames == {"Default", "Family", "Ghost"}
Urls == <<"http://a", "http://b", "http://c", "http://d">>
Days == <<"2023-01-01", "2023-01-02">>

\* ------------------------------------------------------------- documents
SeqsUpTo(S, n) == UNION {[1..k -> S] : k \in 0..n}

RECURSIVE TotalRefs(_)
TotalRefs(rs) ==
    IF rs = <<>> THEN 0 ELSE Len(Head(rs)) + TotalRefs(Tail(rs))

\* a GroupSpec is a mapping with key "name"; one without it is malformed
GroupSpecs == [name : GroupNames]
BadGroupSpec == [description |-> "no name"]

\* the reference lists of the adlists of one document
RefLists ==
    {rs \in SeqsUpTo(SeqsUpTo(RefNames, MaxRefs), MaxAdlists) :
        TotalRefs(rs) <= MaxRefs}

AdlistsOf(rs) == [k \in 1..Len(rs) |-> [url |-> Urls[k], groups |-> rs[k]]]

\* the last adlist entry with one of its keys removed
DropKey(al, key) ==
    [k \in 1..Len(al) |->
        IF k < Len(al) THEN al[k]
        ELSE IF key = "url" THEN [groups |-> al[k].groups]
        ELSE [url |-> al[k].url]]

WellFormedDocs ==
    {[kind |-> "doc", groups |-> g, adlists |-> AdlistsOf(rs)] :
        g \in SeqsUpTo(GroupSpecs, MaxGroups), rs \in RefLists}

\* documents whose last group, or last adlist, lacks a key the importer reads
MalformedDocs ==
    {[kind |-> "doc", groups |-> Append(g, BadGroupSpec),
      adlists |-> AdlistsOf(<< <<>> >>)] :
        g \in SeqsUpTo(GroupSpecs, MaxGroups - 1)}
    \cup
    {[kind |-> "doc", groups |-> g, adlists |-> DropKey(AdlistsOf(rs), key)] :
        g \in SeqsUpTo(GroupSpecs, 1),
        rs \in {r \in RefLists : r # <<>> /\ TotalRefs(r) <= 1},
        key \in {"url", "groups"}}

\* what the config path can hold: no file, a file that is not YAML, a mapping
\* without the adlists key, or a document
NoDoc(kind) == [kind |-> kind, groups |-> <<>>, adlists |-> <<>>]
Configs ==
    {NoDoc("missing"), NoDoc("unparseable"), NoDoc("nokey")}
    \cup WellFormedDocs \cup MalformedDocs

HasKey(entry, key) == key \in DOMAIN entry

\* ----------------------------------------------------------------- store
\* a file of the store directory: the rows it holds once committed
NoFile ==
    [exists |-> FALSE, tables |-> FALSE,
     group |-> <<>>, adlist |-> <<>>, adlist_by_group |-> <<>>]
\* pathlib.Path.touch() / sqlite3.connect: the file is created when absent,
\* and left as it is otherwise
Touch(f) == [f EXCEPT !.exists = TRUE]
\* database.sql applied to the file at the path: the three tables
ApplySchema(f) == [f EXCEPT !.exists = TRUE, !.tables = TRUE]
TouchedFile == Touch(NoFile)
EmptyStore == ApplySchema(NoFile)
\* a store left by an earlier use of the directory
PriorStore ==
    [EmptyStore EXCEPT !.group = <<[id |-> 1, name |-> "Old"]>>,
                       !.adlist = <<[id |-> 1, address |-> "http://old"]>>,
                       !.adlist_by_group = <<[adlist_id |-> 1, group_id |-> 1]>>]

DaySet == {Days[d] : d \in 1..Len(Days)}
NoArchives == [d \in DaySet |-> NoFile]

\* rows written on the connection and not yet committed
NoRows == [group |-> <<>>, adlist |-> <<>>, adlist_by_group |-> <<>>]

VARIABLES
    impl,         \* which program runs
    debug,        \* cli --debug
    yaml,         \* what the config path holds
    today,        \* datetime.today(), formatted %Y-%m-%d
    fs,           \* the store directory: gravity.db and gravity.db.old-<day>
    prior,        \* gravity.db as it was when the run started
    env,          \* "ok", or what the environment refused: "noschema", "fault"
    pc,           \* position of the run
    raised,       \* the exception that is propagating, or "none"
    exit_code,    \* the process exit status, valid once pc = "done"
    _data,        \* self._data
    _connection,  \* Application._connection: "none", "open", "closed"
    _cursor,      \* Application._cursor: "none", "open", "closed"
    conn,         \* GravityYAML: the Database context: "none", "open", "closed"
    txn,          \* rows of the open transaction
    group_index,  \* name -> id
    gi, ai, ri,   \* loop positions: group, adlist, reference
    list_id,      \* id of the adlist row just inserted
    warnings      \* the WARNING lines printed, as <<url, name>>

vars ==
    <<impl, debug, yaml, today, fs, prior, env, pc, raised, exit_code, _data,
      _connection, _cursor, conn, txn, group_index, gi, ai, ri, list_id,
      warnings>>

NoData == NoDoc("None")

InitRun ==
    /\ prior = fs.db
    /\ env = "ok"
    /\ pc = "load_yaml"
    /\ raised = "none"
    /\ exit_code = EXIT_SUCCESS
    /\ _data = NoData
    /\ _connection = "none"
    /\ _cursor = "none"
    /\ conn = "none"
    /\ txn = NoRows
    /\ group_index = [n \in {} |-> DEFAULT_ID]
    /\ gi = 1 /\ ai = 1 /\ ri = 1
    /\ list_id = 0
    /\ warnings = <<>>

Init ==
    /\ impl \in Impls
    /\ debug \in (IF impl = "GravityYAML" THEN BOOLEAN ELSE {FALSE})
    /\ yaml \in Configs
    /\ today = Days[1]
    /\ fs \in {[db |-> f, old |-> NoArchives] : f \in {NoFile, PriorStore}}
    /\ InitRun

\* ------------------------------------------------------------ load_yaml
\* LoadError without the check of len(adlists)
LoadErrorLax(i, y) ==
    IF y.kind = "missing"
        THEN IF i = "Application" THEN "SystemExit" ELSE "TypeError"
    ELSE IF y.kind = "unparseable" THEN "YAMLError"
    ELSE IF y.kind = "nokey" THEN "KeyError"
    ELSE "none"

\* the exception the loader ends with, "none" when the document is accepted
LoadError(i, y) ==
    IF y.kind = "missing"
        THEN IF i = "Application" THEN "SystemExit" ELSE "TypeError"
    ELSE IF y.kind = "unparseable" THEN "YAMLError"
    ELSE IF y.kind = "nokey" THEN "KeyError"
    ELSE IF Len(y.adlists) < 1
        THEN IF i = "Application" THEN "SystemExit" ELSE "ConfigFileError"
    ELSE "none"

Load(i) ==
    /\ impl = i
    /\ pc = "load_yaml"
    /\ _data' = IF yaml.kind \in {"missing", "unparseable"} THEN _data ELSE yaml
    /\ raised' = LoadError(i, yaml)
    /\ pc' = IF raised' = "none" THEN "init_database" ELSE "exit"
    /\ UNCHANGED <<impl, debug, yaml, today, fs, prior, env, exit_code,
                   _connection, _cursor, conn, txn, group_index, gi, ai, ri,
                   list_id, warnings>>

_load_yaml == Load("Application")
load_yaml == Load("GravityYAML")

\* -------------------------------------------------------- init_database
\* Rotate as a copy: the file stays at the target path
RotateCopy(f, day) ==
    IF f.db.exists
        THEN [db |-> f.db, old |-> [f.old EXCEPT ![day] = f.db]]
        ELSE f

\* Rotate that keeps an archive of the same day when there is one
RotateOnce(f, day) ==
    IF f.db.exists
        THEN [db |-> NoFile,
              old |-> IF f.old[day].exists THEN f.old
                      ELSE [f.old EXCEPT ![day] = f.db]]
        ELSE f

\* os.rename(db, db + ".old-" + now) when db is a file
Rotate(f, day) ==
    IF f.db.exists
        THEN [db |-> NoFile, old |-> [f.old EXCEPT ![day] = f.db]]
        ELSE f

_init_database ==
    /\ impl = "Application"
    /\ pc = "init_database"
    /\ \/ \* database.sql is not beside the script: sys.exit(1)
          /\ fs' = Rotate(fs, today)
          /\ env' = "noschema"
          /\ raised' = "SystemExit"
          /\ UNCHANGED _connection
       \/ \* sqlite3.connect fails
          /\ fs' = Rotate(fs, today)
          /\ env' = "fault"
          /\ raised' = "sqlite3.Error"
          /\ UNCHANGED _connection
       \/ \* executescript fails on the connection just opened
          /\ \E made \in BOOLEAN :
                fs' = [Rotate(fs, today) EXCEPT
                          !.db = IF made THEN Touch(@) ELSE @]
          /\ env' = "fault"
          /\ raised' = "sqlite3.Error"
          /\ _connection' = "open"
       \/ /\ fs' = [Rotate(fs, today) EXCEPT !.db = ApplySchema(@)]
          /\ _connection' = "open"
          /\ UNCHANGED <<env, raised>>
    /\ pc' = IF raised' = "none" THEN "populate_database" ELSE "exit"
    /\ UNCHANGED <<impl, debug, yaml, today, prior, exit_code, _data, _cursor,
                   conn, txn, group_index, gi, ai, ri, list_id, warnings>>

init_database ==
    /\ impl = "GravityYAML"
    /\ pc = "init_database"
    /\ fs' = [Rotate(fs, today) EXCEPT !.db = Touch(@)]
    /\ pc' = "populate_database"
    /\ UNCHANGED <<impl, debug, yaml, today, prior, env, raised, exit_code,
                   _data, _connection, _cursor, conn, txn, group_index, gi, ai,
                   ri, list_id, warnings>>

\* ---------------------------------------------------- populate_database
SeedIndex == [n \in {"Default"} |-> DEFAULT_ID]

\* Put that keeps the id a name already has
PutIfAbsent(index, name, id) ==
    [n \in DOMAIN index \cup {name} |->
        IF n \in DOMAIN index THEN index[n] ELSE id]

\* group_index[name] = id
Put(index, name, id) ==
    [n \in DOMAIN index \cup {name} |-> IF n = name THEN id ELSE index[n]]

\* the id sqlite gives the next row of a table, as the connection sees it
InsertId(f, t, table) == Len(f[table]) + Len(t[table]) + 1

\* InsertRow as INSERT OR IGNORE on the group name
InsertRowOrIgnore(t, table, row) ==
    IF table = "group" /\ \E i \in 1..Len(t.group) : t.group[i].name = row.name
        THEN t
        ELSE [t EXCEPT ![table] = Append(@, row)]

\* one more row on the open transaction
InsertRow(t, table, row) == [t EXCEPT ![table] = Append(@, row)]

\* what the store raises when it refuses an operation
StoreError(i) == IF i = "Application" THEN "sqlite3.Error" ELSE "DatabaseError"

\* where the import goes once entry k of a list of n is done
AfterGroups(d) == IF Len(d.adlists) >= 1 THEN "adlists" ELSE "commit"
AfterGroup(d, k) == IF k < Len(d.groups) THEN "groups" ELSE AfterGroups(d)
AfterAdlist(d, k) == IF k < Len(d.adlists) THEN "adlists" ELSE "commit"

\* an exception leaves the loops: finally (Application), __exit__ (Database)
Fail(e) ==
    /\ raised' = e
    /\ pc' = "release"

\* the two guards at the top (no data, no connection) cannot be taken after
\* _load_yaml and _init_database have returned
_populate_database ==
    /\ impl = "Application"
    /\ pc = "populate_database"
    /\ _cursor' = "open"
    /\ group_index' = SeedIndex
    /\ pc' = AfterGroup(_data, 0)
    /\ UNCHANGED <<impl, debug, yaml, today, fs, prior, env, raised, exit_code,
                   _data, _connection, conn, txn, gi, ai, ri, list_id,
                   warnings>>

\* the guard `not self._data` cannot be taken after load_yaml has returned
populate_database ==
    /\ impl = "GravityYAML"
    /\ pc = "populate_database"
    /\ \/ \* database.sql is not beside the module
          /\ env' = "noschema"
          /\ raised' = "FileNotFoundError"
          /\ pc' = "exit"
          /\ UNCHANGED <<fs, conn, group_index>>
       \/ \* Database(path) cannot be opened
          /\ env' = "fault"
          /\ raised' = "DatabaseError"
          /\ pc' = "exit"
          /\ UNCHANGED <<fs, conn, group_index>>
       \/ \* loadFile fails
          /\ env' = "fault"
          /\ conn' = "open"
          /\ Fail("DatabaseError")
          /\ UNCHANGED <<fs, group_index>>
       \/ /\ conn' = "open"
          /\ fs' = [fs EXCEPT !.db = ApplySchema(@)]
          /\ group_index' = SeedIndex
          /\ pc' = AfterGroup(_data, 0)
          /\ UNCHANGED <<env, raised>>
    /\ UNCHANGED <<impl, debug, yaml, today, prior, exit_code, _data,
                   _connection, _cursor, txn, gi, ai, ri, list_id, warnings>>

\* for group in self._data["groups"]: one iteration
PopulateGroup(i) ==
    /\ impl = i
    /\ pc = "groups"
    /\ LET group == _data.groups[gi]
           id == InsertId(fs.db, txn, "group")
       IN \/ /\ ~HasKey(group, "name")
             /\ Fail("KeyError")
             /\ UNCHANGED <<env, txn, group_index, gi>>
          \/ /\ HasKey(group, "name")
             /\ env' = "fault"
             /\ Fail(StoreError(i))
             /\ UNCHANGED <<txn, group_index, gi>>
          \/ /\ HasKey(group, "name")
             /\ txn' = InsertRow(txn, "group", [id |-> id, name |-> group.name])
             /\ group_index' = Put(group_index, group.name, id)
             /\ gi' = gi + 1
             /\ pc' = AfterGroup(_data, gi)
             /\ UNCHANGED <<env, raised>>
    /\ UNCHANGED <<impl, debug, yaml, today, fs, prior, exit_code, _data,
                   _connection, _cursor, conn, ai, ri, list_id, warnings>>

_populate_group == PopulateGroup("Application")
populate_group == PopulateGroup("GravityYAML")

\* for adlist in self._data["adlists"]: the insert, up to the inner loop
PopulateAdlist(i) ==
    /\ impl = i
    /\ pc = "adlists"
    /\ LET adlist == _data.adlists[ai]
           id == InsertId(fs.db, txn, "adlist")
       IN \/ /\ ~HasKey(adlist, "url")
             /\ Fail("KeyError")
             /\ UNCHANGED <<env, txn, list_id, ai, ri>>
          \/ /\ HasKey(adlist, "url")
             /\ env' = "fault"
             /\ Fail(StoreError(i))
             /\ UNCHANGED <<txn, list_id, ai, ri>>
          \/ /\ HasKey(adlist, "url")
             /\ txn' = InsertRow(txn, "adlist",
                                 [id |-> id, address |-> adlist.url])
             /\ list_id' = id
             /\ IF ~HasKey(adlist, "groups")
                   THEN /\ Fail("KeyError")
                        /\ UNCHANGED <<ai, ri>>
                ELSE IF Len(adlist.groups) >= 1
                   THEN /\ pc' = "refs"
                        /\ ri' = 1
                        /\ UNCHANGED <<raised, ai>>
                ELSE /\ pc' = AfterAdlist(_data, ai)
                     /\ ai' = ai + 1
                     /\ UNCHANGED <<raised, ri>>
             /\ UNCHANGED env
    /\ UNCHANGED <<impl, debug, yaml, today, fs, prior, exit_code, _data,
                   _connection, _cursor, conn, group_index, gi, warnings>>

_populate_adlist == PopulateAdlist("Application")
populate_adlist == PopulateAdlist("GravityYAML")

\* Resolve that passes over an unknown name without a warning
ResolveSilently(index, name) ==
    IF name \notin DOMAIN index THEN "skip"
    ELSE IF index[name] = DEFAULT_ID THEN "skip"
    ELSE "link"

\* what the inner loop does with one reference: "warn" (KeyError), "skip"
\* (the Default id) or "link"
Resolve(index, name) ==
    IF name \notin DOMAIN index THEN "warn"
    ELSE IF index[name] = DEFAULT_ID THEN "skip"
    ELSE "link"

\* for group in adlist["groups"]: one iteration
PopulateLink(i) ==
    /\ impl = i
    /\ pc = "refs"
    /\ LET adlist == _data.adlists[ai]
           group == adlist.groups[ri]
           last == ri >= Len(adlist.groups)
           advance ==
               /\ ri' = IF last THEN 1 ELSE ri + 1
               /\ ai' = IF last THEN ai + 1 ELSE ai
               /\ pc' = IF last THEN AfterAdlist(_data, ai) ELSE "refs"
               /\ UNCHANGED raised
       IN \/ /\ Resolve(group_index, group) = "warn"
             /\ warnings' = Append(warnings, <<adlist.url, group>>)
             /\ advance
             /\ UNCHANGED <<env, txn>>
          \/ /\ Resolve(group_index, group) = "skip"
             /\ advance
             /\ UNCHANGED <<env, txn, warnings>>
          \/ /\ Resolve(group_index, group) = "link"
             /\ env' = "fault"
             /\ Fail(StoreError(i))
             /\ UNCHANGED <<txn, warnings, ai, ri>>
          \/ /\ Resolve(group_index, group) = "link"
             /\ txn' = InsertRow(txn, "adlist_by_group",
                                 [adlist_id |-> list_id,
                                  group_id |-> group_index[group]])
             /\ advance
             /\ UNCHANGED <<env, warnings>>
    /\ UNCHANGED <<impl, debug, yaml, today, fs, prior, exit_code, _data,
                   _connection, _cursor, conn, group_index, gi, list_id>>

_populate_link == PopulateLink("Application")
populate_link == PopulateLink("GravityYAML")

\* the file once the transaction's rows are committed to it
Committed(f, t) ==
    [f EXCEPT !.group = @ \o t.group,
              !.adlist = @ \o t.adlist,
              !.adlist_by_group = @ \o t.adlist_by_group]

\* Closed that commits what is pending
ClosedCommitting(f, t) == Committed(f, t)

\* the file once the connection is closed: rows not committed are dropped
Closed(f, t) == f

\* connection.commit() / conn.commit(), the last statement of the import
Commit(i) ==
    /\ impl = i
    /\ pc = "commit"
    /\ \/ /\ env' = "fault"
          /\ raised' = StoreError(i)
          /\ UNCHANGED <<fs, txn>>
       \/ /\ fs' = [fs EXCEPT !.db = Committed(@, txn)]
          /\ txn' = NoRows
          /\ UNCHANGED <<env, raised>>
    /\ pc' = "release"
    /\ UNCHANGED <<impl, debug, yaml, today, prior, exit_code, _data,
                   _connection, _cursor, conn, group_index, gi, ai, ri,
                   list_id, warnings>>

_commit == Commit("Application")
commit == Commit("GravityYAML")

\* Application.run: the finally block
run_finally ==
    /\ impl = "Application"
    /\ pc = "release"
    /\ _cursor' = IF _cursor = "open" THEN "closed" ELSE _cursor
    /\ _connection' = "closed"
    /\ fs' = [fs EXCEPT !.db = Closed(@, txn)]
    /\ txn' = NoRows
    /\ pc' = "exit"
    /\ UNCHANGED <<impl, debug, yaml, today, prior, env, raised, exit_code,
                   _data, conn, group_index, gi, ai, ri, list_id, warnings>>

\* GravityYAML.populate_database: leaving `with Database(...) as conn`
Database_exit ==
    /\ impl = "GravityYAML"
    /\ pc = "release"
    /\ conn' = "closed"
    /\ fs' = [fs EXCEPT !.db = Closed(@, txn)]
    /\ txn' = NoRows
    /\ pc' = "exit"
    /\ UNCHANGED <<impl, debug, yaml, today, prior, env, raised, exit_code,
                   _data, _connection, _cursor, group_index, gi, ai, ri,
                   list_id, warnings>>

\* ------------------------------------------------------------------ exit
\* main(): the interpreter's status: 0, or 1 for sys.exit(1) and for an
\* exception nobody caught
MainStatus(e) == IF e = "none" THEN EXIT_SUCCESS ELSE EXIT_DEFAULT

\* cli(): the except clauses, skipped under --debug
CliStatus(e, dbg) ==
    IF e = "none" THEN EXIT_SUCCESS
    ELSE IF dbg THEN EXIT_DEFAULT
    ELSE IF e = "DatabaseError" THEN EXIT_DATABASE_ERROR
    ELSE EXIT_DEFAULT

main ==
    /\ impl = "Application"
    /\ pc = "exit"
    /\ exit_code' = MainStatus(raised)
    /\ pc' = "done"
    /\ UNCHANGED <<impl, debug, yaml, today, fs, prior, env, raised, _data,
                   _connection, _cursor, conn, txn, group_index, gi, ai, ri,
                   list_id, warnings>>

cli ==
    /\ impl = "GravityYAML"
    /\ pc = "exit"
    /\ exit_code' = CliStatus(raised, debug)
    /\ pc' = "done"
    /\ UNCHANGED <<impl, debug, yaml, today, fs, prior, env, raised, _data,
                   _connection, _cursor, conn, txn, group_index, gi, ai, ri,
                   list_id, warnings>>

Next ==
    \/ _load_yaml \/ _init_database \/ _populate_database
    \/ _populate_group \/ _populate_adlist \/ _populate_link
    \/ _commit \/ run_finally \/ main
    \/ load_yaml \/ init_database \/ populate_database
    \/ populate_group \/ populate_adlist \/ populate_link
    \/ commit \/ Database_exit \/ cli

Spec == Init /\ [][Next]_vars

\* ----------------------------------------------------------------- rerun
\* the tool is started again on the same config and directory, the same day
\* or a later one; the files of the directory are what the last run left
LaterDays(day) ==
    {Days[d] : d \in {e \in 1..Len(Days) : \E c \in 1..e : Days[c] = day}}

rerun ==
    /\ pc = "done"
    /\ today' \in LaterDays(today)
    /\ prior' = fs.db
    /\ env' = "ok"
    /\ pc' = "load_yaml"
    /\ raised' = "none"
    /\ exit_code' = EXIT_SUCCESS
    /\ _data' = NoData
    /\ _connection' = "none"
    /\ _cursor' = "none"
    /\ conn' = "none"
    /\ txn' = NoRows
    /\ group_index' = [n \in {} |-> DEFAULT_ID]
    /\ gi' = 1 /\ ai' = 1 /\ ri' = 1
    /\ list_id' = 0
    /\ warnings' = <<>>
    /\ UNCHANGED <<impl, debug, yaml, fs>>

\* documents of one adlist, for the runs that follow one another
RerunDocs ==
    {d \in WellFormedDocs :
        /\ Len(d.groups) <= 1
        /\ Len(d.adlists) = 1}

InitRerun ==
    /\ impl \in Impls
    /\ debug = FALSE
    /\ yaml \in RerunDocs
    /\ today \in DaySet
    /\ fs \in {[db |-> f, old |-> NoArchives] : f \in {NoFile, PriorStore}}
    /\ InitRun

NextRerun == Next \/ rerun

SpecRerun == InitRerun /\ [][NextRerun]_vars

\* ============================================================ properties
\* what a document is expected to leave in a fresh store, stated on the
\* document alone

\* every entry carries the keys the importer reads, and there is an adlist
ValidDoc(y) ==
    /\ y.kind = "doc"
    /\ Len(y.adlists) >= 1
    /\ \A i \in 1..Len(y.groups) : HasKey(y.groups[i], "name")
    /\ \A k \in 1..Len(y.adlists) :
          HasKey(y.adlists[k], "url") /\ HasKey(y.adlists[k], "groups")

\* the loader has to refuse what the config path holds
LoaderMustFail(y) == y.kind # "doc" \/ Len(y.adlists) < 1

Declared(d) == {d.groups[i].name : i \in 1..Len(d.groups)}

\* the position of the last group entry of that name
LastPos(d, name) ==
    CHOOSE i \in 1..Len(d.groups) :
        /\ d.groups[i].name = name
        /\ \A j \in (i + 1)..Len(d.groups) : d.groups[j].name # name

\* the references of the document, in order, as <<adlist position, name>>
RECURSIVE RefsFrom(_, _)
RefsFrom(d, k) ==
    IF k > Len(d.adlists) THEN <<>>
    ELSE [r \in 1..Len(d.adlists[k].groups) |-> <<k, d.adlists[k].groups[r]>>]
         \o RefsFrom(d, k + 1)

ExpectedWarnings(d) ==
    LET Unknown(p) == p[2] \notin Declared(d) \cup {"Default"}
        refs == SelectSeq(RefsFrom(d, 1), Unknown)
    IN [n \in 1..Len(refs) |-> <<d.adlists[refs[n][1]].url, refs[n][2]>>]

ExpectedLinks(d) ==
    LET Known(p) == p[2] \in Declared(d)
        refs == SelectSeq(RefsFrom(d, 1), Known)
    IN [n \in 1..Len(refs) |->
           [adlist_id |-> refs[n][1], group_id |-> LastPos(d, refs[n][2])]]

HasRows(f) == f.group # <<>> \/ f.adlist # <<>> \/ f.adlist_by_group # <<>>

Succeeded == pc = "done" /\ exit_code = EXIT_SUCCESS

\* C1: a valid document with at least one adlist, on a store that accepts
\* every operation, is imported with exit status 0 and leaves one group row
\* per entry of groups and one adlist row per entry of adlists, in document
\* order, duplicates included.
C1_OneRowPerEntry ==
    (pc = "done" /\ ValidDoc(yaml) /\ env = "ok") =>
        /\ exit_code = EXIT_SUCCESS
        /\ raised = "none"
        /\ fs.db.group =
              [i \in 1..Len(yaml.groups) |->
                  [id |-> i, name |-> yaml.groups[i].name]]
        /\ fs.db.adlist =
              [k \in 1..Len(yaml.adlists) |->
                  [id |-> k, address |-> yaml.adlists[k].url]]

C1_Witness ==
    /\ Succeeded
    /\ Len(yaml.groups) = 2
    /\ yaml.groups[1].name = yaml.groups[2].name
    /\ Len(fs.db.group) = 2
    /\ Len(fs.db.adlist) = 2

\* C2: no step of the inner loop that handles a reference named "Default"
\* adds an adlist_by_group row.
C2_DefaultNeverLinked ==
    [][(pc = "refs" /\ _data.adlists[ai].groups[ri] = "Default") =>
          txn'.adlist_by_group = txn.adlist_by_group]_vars

\* C3: on a valid document and a store that accepts every operation the
\* import ends with status 0, the warnings printed are exactly the references
\* to names that are neither "Default" nor declared, one per occurrence and in
\* order, each with its adlist's url, and the adlist_by_group rows are exactly
\* those of the other references to declared names.
C3_UnresolvedWarnedAndSkipped ==
    (pc = "done" /\ ValidDoc(yaml) /\ env = "ok") =>
        /\ exit_code = EXIT_SUCCESS
        /\ warnings = ExpectedWarnings(yaml)
        /\ fs.db.adlist_by_group = ExpectedLinks(yaml)
        /\ Len(fs.db.adlist) = Len(yaml.adlists)

C3_Witness ==
    /\ Succeeded
    /\ Len(yaml.adlists) = 2
    /\ yaml.adlists[1].groups = <<"Ghost", "Family">>
    /\ warnings = << <<"http://a", "Ghost">> >>
    /\ fs.db.adlist_by_group = <<[adlist_id |-> 1, group_id |-> 1]>>
    /\ Len(fs.db.adlist) = 2

\* C4: when the config file is missing, unparseable, without the adlists key
\* or with an empty adlists list, the store directory is never changed and no
\* connection is opened, and the run ends with an error and a status other
\* than 0.
C4_LoaderFailsBeforeStore ==
    LoaderMustFail(yaml) =>
        /\ fs = [db |-> prior, old |-> NoArchives]
        /\ _connection = "none" /\ _cursor = "none" /\ conn = "none"
        /\ txn = NoRows
        /\ pc \in {"load_yaml", "exit", "done"}
        /\ pc # "load_yaml" => raised # "none"
        /\ pc = "done" => exit_code # EXIT_SUCCESS

C4_Witness ==
    /\ pc = "done"
    /\ yaml.kind = "doc" /\ Len(yaml.adlists) = 0
    /\ prior = PriorStore
    /\ fs.db = PriorStore
    /\ exit_code # EXIT_SUCCESS

\* C5: the file at the target path holds rows of this run only once the
\* commit went through, and then all of them; a run that an exception ends
\* leaves no group, adlist or adlist_by_group row at the target path.
C5_AllOrNothing ==
    /\ (HasRows(fs.db) /\ fs.db # prior) =>
          /\ pc \in {"release", "exit", "done"}
          /\ raised = "none"
          /\ Len(fs.db.group) = Len(yaml.groups)
          /\ Len(fs.db.adlist) = Len(yaml.adlists)
    /\ (pc = "done" /\ raised # "none" /\ ~LoaderMustFail(yaml)) =>
          ~HasRows(fs.db)

C5_Witness ==
    /\ pc = "done"
    /\ raised # "none"
    /\ list_id >= 1
    /\ gi >= 2
    /\ ~HasRows(fs.db)

\* C6: a run that succeeds, whatever runs came before it on the same
\* directory, leaves the file it found at the target path under
\* gravity.db.old-<today>, and a store with the row counts of an import of
\* the document into an empty store.
C6_RerunSameContent ==
    Succeeded =>
        /\ prior.exists => fs.old[today] = prior
        /\ Len(fs.db.group) = Len(yaml.groups)
        /\ Len(fs.db.adlist) = Len(yaml.adlists)
        /\ Len(fs.db.adlist_by_group) = Len(ExpectedLinks(yaml))

\* a second successful import, over the store the first one left
C6_Witness ==
    /\ Succeeded
    /\ prior.exists /\ prior # PriorStore /\ HasRows(prior)
    /\ fs.old[today] = prior
    /\ Len(fs.db.adlist_by_group) = 1
    /\ Len(prior.adlist_by_group) = 1

\* the exit status the kinds of outcome are said to have
ClaimedStatus ==
    IF raised = "none" THEN {EXIT_SUCCESS}
    ELSE IF env = "fault" THEN {EXIT_DATABASE_ERROR}
    ELSE IF yaml.kind = "missing" \/ env = "noschema" THEN {EXIT_FILE_ERROR}
    ELSE IF yaml.kind = "doc" /\ Len(yaml.adlists) < 1
        THEN {EXIT_CONFIG_FILE_ERROR}
    ELSE {EXIT_CONFIG_FILE_ERROR, EXIT_DEFAULT}

\* C7: the exit status is 0 on success, 2 for a store error, 3 for a config
\* file error such as an empty adlists list, 4 for a config file or schema
\* that is not found, and 1 for nothing but another failure.
C7_ExitCodeByKind == pc = "done" => exit_code \in ClaimedStatus

\* C8: once the groups are inserted the index maps every declared name to the
\* id of the last entry of that name, one group row was written per entry, and
\* no adlist_by_group row of the finished import points to a group row that a
\* later row of the same name shadows.
C8_LastWriteWins ==
    /\ pc \in {"adlists", "refs", "commit"} =>
          /\ Len(txn.group) = Len(_data.groups)
          /\ \A n \in Declared(_data) : group_index[n] = LastPos(_data, n)
    /\ Succeeded =>
          \A n \in 1..Len(fs.db.adlist_by_group) :
              LET g == fs.db.adlist_by_group[n].group_id
              IN /\ g \in 1..Len(fs.db.group)
                 /\ \A j \in (g + 1)..Len(fs.db.group) :
                       fs.db.group[j].name # fs.db.group[g].name

C8_Witness ==
    /\ Succeeded
    /\ Len(yaml.groups) = 2
    /\ yaml.groups[1].name = "Family" /\ yaml.groups[2].name = "Family"
    /\ Len(fs.db.group) = 2
    /\ fs.db.adlist_by_group = <<[adlist_id |-> 1, group_id |-> 2]>>

\* C9: when the run has ended no connection, cursor or Database context
\* opened by it is still open and no transaction is pending.
C9_HandleReleased ==
    pc = "done" =>
        /\ _connection # "open" /\ _cursor # "open" /\ conn # "open"
        /\ txn = NoRows

\* C10: from the moment the store initializer has run, and to the end of the
\* run however it ends, the file that was at the target path when the run
\* started is at gravity.db.old-<today>, unchanged; a run that fails leaves
\* no row at the target path.
C10_PriorOnlyInArchive ==
    (~LoaderMustFail(yaml) /\ prior.exists
        /\ pc \notin {"load_yaml", "init_database"}) =>
        /\ fs.old[today] = prior
        /\ (pc = "done" /\ exit_code # EXIT_SUCCESS) => ~HasRows(fs.db)

\* the schema is missing on a second run of the day: the store of the first
\* run is in the archive, in the place of the one archived before
C10_Witness ==
    /\ pc = "done"
    /\ env = "noschema"
    /\ HasRows(prior) /\ prior # PriorStore
    /\ fs.old[today] = prior
    /\ ~HasRows(fs.db)

====
